---- MODULE Spec2Model ----
(***************************************************************************)
(* A model of s28382_2025-2.py: the NCBIRetriever class (search_taxid,     *)
(* fetch_records, filter_by_length, generate_csv, generate_plot) and the   *)
(* main() workflow that drives it.                                         *)
(*                                                                         *)
(* Three specifications share the variables:                               *)
(*   Spec          - one run of main(), one action per statement group;    *)
(*   SpecRetriever - a client calling search_taxid and fetch_records on    *)
(*                   one retriever in any order, any number of times;      *)
(*   SpecPure      - the pure list functions (filter_by_length and the     *)
(*                   sort of generate_plot) applied to arbitrary inputs.   *)
(*                                                                         *)
(* The remote service (Entrez), the parser (SeqIO) and the file system are *)
(* the environment: what they answer is an input drawn with \E.            *)
(***************************************************************************)
EXTENDS Integers, Sequences, FiniteSets, TLC

VARIABLES
    retriever,    \* the instance attributes of the NCBIRetriever object (a function: name -> value)
    requests,     \* main: the remote requests issued so far in the run, in order
    log,          \* main: the lines printed so far in the run, in order
    files,        \* main: the file system (a function: file name -> content)
    pc,           \* main: the position in main()
    taxid,        \* main: local taxid
    min_len,      \* main: local min_len
    max_len,      \* main: local max_len
    count,        \* main: local count
    all_records,  \* main: local all_records
    filtered,     \* main: local filtered
    exc,          \* main: the exception that escaped main(), or "none"
    call,         \* client: the latest completed call on the retriever (inputs, return value, effects)
    ever_ok,      \* client: some search_taxid call has returned a count
    p_records,    \* pure: the caller's list
    p_snapshot,   \* pure: a copy of the caller's list taken before any call
    p_min,        \* pure: min_len argument
    p_max,        \* pure: max_len argument
    p_out,        \* pure: the list returned by filter_by_length(p_records, ...)
    p_out2,       \* pure: the list returned by filtering p_out again
    p_plot        \* pure: the series drawn by generate_plot(p_records, ...)

vars == <<retriever, requests, log, files, pc, taxid, min_len, max_len, count,
          all_records, filtered, exc, call, ever_ok,
          p_records, p_snapshot, p_min, p_max, p_out, p_out2, p_plot>>

mainVars == <<requests, log, files, pc, taxid, min_len, max_len, count,
              all_records, filtered, exc>>
clientVars == <<call, ever_ok>>
pureVars == <<p_records, p_snapshot, p_min, p_max, p_out, p_out2, p_plot>>

----------------------------------------------------------------------------
(* Bounds of the model *)

\* the longest record list the remote service returns / a caller passes
MaxRecs == 3
\* the largest Count a search response carries
MaxCount == 2

(* Program constants *)

\* min(max_records, 500)
BatchCap == 500
\* fetch_records(start=0, max_records=200) in main
MainMaxRecords == 200
MainStart == 0

----------------------------------------------------------------------------
(* Python values *)

None == [t |-> "None"]
PyInt(n) == [t |-> "int", v |-> n]
PyList(s) == [t |-> "list", v |-> s]

\* a variant of Not: `if count == 0:` in place of `if not count:`
Not_only_zero(v) == v # None /\ v.t = "int" /\ v.v = 0

\* Python truthiness of `not v` for the values search_taxid returns
Not(v) == v = None \/ (v.t = "int" /\ v.v = 0)

Min(a, b) == IF a <= b THEN a ELSE b

\* text is a sequence of one-character strings
Digits == <<"0", "1", "2", "3", "4", "5", "6", "7", "8", "9">>
IsDigit(c) == \E i \in 1..10 : Digits[i] = c
DigitValue(c) == (CHOOSE i \in 1..10 : Digits[i] = c) - 1

RECURSIVE NatText(_)
NatText(n) == IF n < 10 THEN <<Digits[n + 1]>>
              ELSE NatText(n \div 10) \o <<Digits[(n % 10) + 1]>>

RECURSIVE DigitsValue(_)
DigitsValue(t) == IF Len(t) = 0 THEN 0
                  ELSE 10 * DigitsValue(SubSeq(t, 1, Len(t) - 1)) + DigitValue(t[Len(t)])

AllDigits(t) == Len(t) > 0 /\ \A i \in 1..Len(t) : IsDigit(t[i])

\* int(text): an optional sign followed by decimal digits; anything else raises ValueError
int(t) ==
    IF AllDigits(t) THEN [ok |-> TRUE, v |-> DigitsValue(t)]
    ELSE IF Len(t) > 1 /\ t[1] = "-" /\ AllDigits(Tail(t)) THEN [ok |-> TRUE, v |-> 0 - DigitsValue(Tail(t))]
    ELSE IF Len(t) > 1 /\ t[1] = "+" /\ AllDigits(Tail(t)) THEN [ok |-> TRUE, v |-> DigitsValue(Tail(t))]
    ELSE [ok |-> FALSE]

----------------------------------------------------------------------------
(* Records: what SeqIO.parse yields. seq_len stands for len(rec.seq). *)

RecordPool == {
    [id |-> "A1", seq_len |-> 50,  description |-> "d1"],
    [id |-> "A2", seq_len |-> 150, description |-> "d2"],
    [id |-> "A3", seq_len |-> 300, description |-> "d3"],
    [id |-> "A4", seq_len |-> 150, description |-> "d4"] }

SeqsUpTo(S, n) == UNION { [1..k -> S] : k \in 0..n }

RecordLists == SeqsUpTo(RecordPool, MaxRecs)

\* the length bounds a caller passes
BoundPool == {-1, 0, 50, 100, 150, 200, 300, 301}

----------------------------------------------------------------------------
(* NCBIRetriever.filter_by_length *)

\* a variant of filter_by_length: the upper bound exclusive (len < max_len)
RECURSIVE filter_upper_exclusive(_, _, _)
filter_upper_exclusive(records, lo, hi) ==
    IF Len(records) = 0 THEN <<>>
    ELSE LET rec == Head(records)
             rest == filter_upper_exclusive(Tail(records), lo, hi)
         IN IF lo <= rec.seq_len /\ rec.seq_len < hi THEN <<rec>> \o rest ELSE rest

\* a variant of filter_by_length: the first record of the list is skipped (records[1:])
RECURSIVE filter_rest(_, _, _)
filter_rest(records, lo, hi) ==
    IF Len(records) = 0 THEN <<>>
    ELSE LET rec == Head(records)
             rest == filter_rest(Tail(records), lo, hi)
         IN IF lo <= rec.seq_len /\ rec.seq_len <= hi THEN <<rec>> \o rest ELSE rest
filter_skip_first(records, lo, hi) ==
    IF Len(records) = 0 THEN <<>> ELSE filter_rest(Tail(records), lo, hi)

\* a variant of filter_by_length: `or` between the two comparisons
RECURSIVE filter_either_bound(_, _, _)
filter_either_bound(records, lo, hi) ==
    IF Len(records) = 0 THEN <<>>
    ELSE LET rec == Head(records)
             rest == filter_either_bound(Tail(records), lo, hi)
         IN IF lo <= rec.seq_len \/ rec.seq_len <= hi THEN <<rec>> \o rest ELSE rest

RECURSIVE filter_by_length(_, _, _)
filter_by_length(records, lo, hi) ==
    IF Len(records) = 0 THEN <<>>
    ELSE LET rec == Head(records)
             rest == filter_by_length(Tail(records), lo, hi)
         IN IF lo <= rec.seq_len /\ rec.seq_len <= hi THEN <<rec>> \o rest ELSE rest

----------------------------------------------------------------------------
(* NCBIRetriever.generate_plot: sorted(records, key=len(r.seq), reverse=True) *)

\* a variant of InsertDesc: r goes before the first element whose key is <= its own
\* (ties end up in reverse order)
RECURSIVE InsertDesc_before_ties(_, _)
InsertDesc_before_ties(s, r) ==
    IF Len(s) = 0 THEN <<r>>
    ELSE IF Head(s).seq_len > r.seq_len THEN <<Head(s)>> \o InsertDesc_before_ties(Tail(s), r)
    ELSE <<r>> \o s

\* r goes after every element whose key is >= its own (ties keep their order)
RECURSIVE InsertDesc(_, _)
InsertDesc(s, r) ==
    IF Len(s) = 0 THEN <<r>>
    ELSE IF Head(s).seq_len >= r.seq_len THEN <<Head(s)>> \o InsertDesc(Tail(s), r)
    ELSE <<r>> \o s

RECURSIVE sorted(_)
sorted(records) ==
    IF Len(records) = 0 THEN <<>>
    ELSE InsertDesc(sorted(SubSeq(records, 1, Len(records) - 1)), records[Len(records)])

\* the series generate_plot draws: args and lengths of the sorted copy
plot_series(records) ==
    LET sorted_records == sorted(records)
    IN [args |-> [i \in 1..Len(sorted_records) |-> sorted_records[i].id],
        lengths |-> [i \in 1..Len(sorted_records) |-> sorted_records[i].seq_len]]

\* a variant of records_after_plot: records.sort(...) in place of sorted(records)
records_sorted_in_place(records) == sorted(records)

\* the caller's list after generate_plot(records, ...): sorted() builds a new list
records_after_plot(records) == records

\* a variant of csv_rows: the rows taken from the sorted list
csv_rows_sorted(records) ==
    LET sorted_records == sorted(records)
    IN [i \in 1..Len(sorted_records) |->
          <<sorted_records[i].id, sorted_records[i].seq_len, sorted_records[i].description>>]

\* the rows generate_csv writes
csv_rows(records) ==
    [i \in 1..Len(records) |-> <<records[i].id, records[i].seq_len, records[i].description>>]

----------------------------------------------------------------------------
(* The remote service, as the retriever sees it *)

TaxIds == {"9606", "562"}

Raise == [raises |-> TRUE]
Answer(v) == [raises |-> FALSE, v |-> v]

\* what Entrez.read answers for the taxonomy efetch: it raises, or a list of records
TaxonomyAnswers ==
    { Raise, Answer(<<>>), Answer(<<[OtherNames |-> "x"]>>), Answer(<<[ScientificName |-> "Homo sapiens"]>>) }

WebEnvs == {"MCID_1", "MCID_2"}
QueryKeys == {"1", "2"}
CountTexts == { NatText(n) : n \in 0..MaxCount } \cup { <<"x">> }

\* what Entrez.read answers for the nucleotide esearch: it raises, or a dictionary
\* that holds some of Count, WebEnv and QueryKey
SearchAnswers ==
    { Raise }
    \cup { Answer([Count |-> c, WebEnv |-> w, QueryKey |-> q]) : c \in CountTexts, w \in WebEnvs, q \in QueryKeys }
    \cup { Answer([Count |-> c, QueryKey |-> "1"]) : c \in CountTexts }
    \cup { Answer([Count |-> c, WebEnv |-> "MCID_1"]) : c \in CountTexts }
    \cup { Answer([WebEnv |-> "MCID_1", QueryKey |-> "1"]) }

SearchEnvs == [taxonomy : TaxonomyAnswers, esearch : SearchAnswers]

\* what efetch + SeqIO.parse answer: efetch raises, the parse raises, or a list
\* (one of lists) of at most retmax records
FetchEnvs(retmax, lists) ==
    { [raises |-> TRUE, e |-> "HTTPError"], [raises |-> TRUE, e |-> "ValueError"] }
    \cup { [raises |-> FALSE, records |-> p] : p \in { r \in lists : Len(r) <= retmax } }

hasattr(self, name) == name \in DOMAIN self

\* self.name = value
setattr(self, name, value) ==
    [a \in DOMAIN self \cup {name} |-> IF a = name THEN value ELSE self[a]]

----------------------------------------------------------------------------
(* NCBIRetriever.search_taxid                                              *)
(* The result: the attributes afterwards, the value returned, the lines    *)
(* printed and the remote requests issued.                                 *)

TaxonomyRequest(id) == [fn |-> "efetch", db |-> "taxonomy", id |-> id]
SearchRequest(id) == [fn |-> "esearch", db |-> "nucleotide", term |-> <<"txid", id, "[Organism]">>, usehistory |-> "y"]

\* a call's result: whether an exception leaves the call, the value returned, the
\* attributes afterwards, the lines printed and the remote requests issued
Returned(self, ret, printed, issued) ==
    [raises |-> FALSE, self |-> self, ret |-> ret, out |-> printed, reqs |-> issued]
Raised(self, e, printed, issued) ==
    [raises |-> TRUE, exc |-> e, self |-> self, ret |-> None, out |-> printed, reqs |-> issued]

\* a variant of search_except: `except KeyError`, so any other exception leaves the call
search_except_key_error(self, id, e, printed, issued) ==
    IF e = "KeyError"
    THEN Returned(self, None, printed \o <<[msg |-> "Error searching TaxID", taxid |-> id, e |-> e]>>, issued)
    ELSE Raised(self, e, printed, issued)

\* lines 33-35: except Exception as e: print(...); return None
search_except(self, id, e, printed, issued) ==
    Returned(self, None, printed \o <<[msg |-> "Error searching TaxID", taxid |-> id, e |-> e]>>, issued)

\* a variant of zero_count_return: the session is stored before the count is looked at
zero_count_stores_session(self, search_results, printed, issued) ==
    IF "WebEnv" \in DOMAIN search_results /\ "QueryKey" \in DOMAIN search_results
    THEN Returned(setattr(setattr(self, "webenv", search_results.WebEnv), "query_key", search_results.QueryKey),
                  None, printed, issued)
    ELSE Returned(self, None, printed, issued)

\* a variant of zero_count_return: `return count`
zero_count_returns_count(self, search_results, printed, issued) ==
    Returned(self, PyInt(0), printed, issued)

\* lines 23-24: if count == 0: return None
zero_count_return(self, search_results, printed, issued) ==
    Returned(self, None, printed, issued)

search_taxid(self, id, env) ==
    LET p1 == <<[msg |-> "Searching for records with taxID", taxid |-> id]>>
        q1 == <<TaxonomyRequest(id)>>
    IN
    IF env.taxonomy.raises THEN search_except(self, id, "HTTPError", p1, q1)
    ELSE IF Len(env.taxonomy.v) = 0 THEN search_except(self, id, "IndexError", p1, q1)
    ELSE IF "ScientificName" \notin DOMAIN env.taxonomy.v[1] THEN search_except(self, id, "KeyError", p1, q1)
    ELSE
    LET organism_name == env.taxonomy.v[1].ScientificName
        p2 == p1 \o <<[msg |-> "Organism", name |-> organism_name, taxid |-> id]>>
        q2 == q1 \o <<SearchRequest(id)>>
    IN
    IF env.esearch.raises THEN search_except(self, id, "HTTPError", p2, q2)
    ELSE
    LET search_results == env.esearch.v
    IN
    IF "Count" \notin DOMAIN search_results THEN search_except(self, id, "KeyError", p2, q2)
    ELSE IF ~int(search_results.Count).ok THEN search_except(self, id, "ValueError", p2, q2)
    ELSE
    LET cnt == int(search_results.Count).v
        p3 == p2 \o <<[msg |-> "Found records", count |-> cnt, name |-> organism_name, taxid |-> id]>>
    IN
    IF cnt = 0 THEN zero_count_return(self, search_results, p3, q2)
    ELSE IF "WebEnv" \notin DOMAIN search_results THEN search_except(self, id, "KeyError", p3, q2)
    ELSE
    LET self1 == setattr(self, "webenv", search_results.WebEnv)
    IN
    IF "QueryKey" \notin DOMAIN search_results THEN search_except(self1, id, "KeyError", p3, q2)
    ELSE
    LET self2 == setattr(self1, "query_key", search_results.QueryKey)
        self3 == setattr(self2, "count", cnt)
    IN Returned(self3, PyInt(cnt), p3, q2)

----------------------------------------------------------------------------
(* NCBIRetriever.fetch_records *)

\* a variant of FetchRequest: retstart and retmax given each other's value
FetchRequest_swapped(self, start, retmax) ==
    [fn |-> "efetch", db |-> "nucleotide", rettype |-> "gb", retmode |-> "text",
     retstart |-> retmax, retmax |-> start,
     webenv |-> self.webenv, query_key |-> self.query_key]

FetchRequest(self, start, retmax) ==
    [fn |-> "efetch", db |-> "nucleotide", rettype |-> "gb", retmode |-> "text",
     retstart |-> start, retmax |-> retmax,
     webenv |-> self.webenv, query_key |-> self.query_key]

\* a variant of batch_size: no cap
batch_size_uncapped(max_records) == max_records

\* line 43: the page size fetch_records asks for
batch_size(max_records) == Min(max_records, BatchCap)

\* line 38: whether fetch_records goes on to the remote call
has_session(self) == hasattr(self, "webenv") /\ hasattr(self, "query_key")

\* a variant of fetch_except: `except HTTPError`, so a parse failure leaves the call
fetch_except_http_error(self, e, issued) ==
    IF e = "HTTPError"
    THEN Returned(self, PyList(<<>>), <<[msg |-> "Error fetching records", e |-> e]>>, issued)
    ELSE Raised(self, e, <<>>, issued)

\* lines 56-58: except Exception as e: print(...); return []
fetch_except(self, e, issued) ==
    Returned(self, PyList(<<>>), <<[msg |-> "Error fetching records", e |-> e]>>, issued)

fetch_records(self, start, max_records, env) ==
    IF ~has_session(self)
    THEN Returned(self, PyList(<<>>), <<[msg |-> "No search results to fetch. Run search_taxid() first."]>>, <<>>)
    ELSE
    LET q == <<FetchRequest(self, start, batch_size(max_records))>>
    IN IF env.raises
       THEN fetch_except(self, env.e, q)
       ELSE Returned(self, PyList(env.records), <<>>, q)

----------------------------------------------------------------------------
(* NCBIRetriever.generate_csv and generate_plot, on a file system.         *)
(* writable is the environment's answer: FALSE makes the write raise       *)
(* OSError before anything is stored.                                      *)

write(fs, filename, content) ==
    [f \in DOMAIN fs \cup {filename} |-> IF f = filename THEN content ELSE fs[f]]

generate_csv(records, filename, fs, writable) ==
    IF ~writable THEN [raises |-> TRUE, files |-> fs, out |-> <<>>]
    ELSE [raises |-> FALSE,
          files |-> write(fs, filename,
                          [columns |-> <<"Accession number", "Length", "Description">>,
                           rows |-> csv_rows(records)]),
          out |-> <<[msg |-> "Saved CSV report", to |-> filename]>>]

generate_plot(records, filename, fs, writable) ==
    IF ~writable THEN [raises |-> TRUE, files |-> fs, out |-> <<>>, records |-> records_after_plot(records)]
    ELSE [raises |-> FALSE,
          files |-> write(fs, filename, plot_series(records)),
          out |-> <<[msg |-> "Saved plot", to |-> filename]>>,
          records |-> records_after_plot(records)]

csv_file(id) == <<"taxid_", id, "_report.csv">>
plot_file(id) == <<"taxid_", id, "_plot.png">>

----------------------------------------------------------------------------
(* main() *)

Unset == [t |-> "unset"]
NoAttributes == [a \in {} |-> None]
NoFiles == [f \in {} |-> None]
NoCall == [op |-> "none"]

\* what the user types for the length bounds
BoundTexts == { NatText(50), NatText(100), NatText(200), NatText(300), <<"a", "b", "c">> }

InitMainVars ==
    /\ requests = <<>>
    /\ log = <<>>
    /\ files = NoFiles
    /\ pc = "Init"
    /\ taxid = Unset
    /\ min_len = Unset
    /\ max_len = Unset
    /\ count = Unset
    /\ all_records = Unset
    /\ filtered = Unset
    /\ exc = "none"

InitClientVars ==
    /\ call = NoCall
    /\ ever_ok = FALSE

InitPureVars ==
    /\ p_records = <<>>
    /\ p_snapshot = <<>>
    /\ p_min = 0
    /\ p_max = 0
    /\ p_out = Unset
    /\ p_out2 = Unset
    /\ p_plot = Unset

\* __init__ sets no instance attribute
Init ==
    /\ retriever = NoAttributes
    /\ InitMainVars
    /\ InitClientVars
    /\ InitPureVars

\* lines 86-94: the prompts; int() of a bound may raise ValueError, which escapes
MainInput ==
    /\ pc = "Init"
    /\ \E id \in TaxIds, a \in BoundTexts, b \in BoundTexts :
        /\ taxid' = id
        /\ IF ~int(a).ok
           THEN /\ pc' = "Crashed" /\ exc' = "ValueError"
                /\ UNCHANGED <<min_len, max_len>>
           ELSE IF ~int(b).ok
           THEN /\ pc' = "Crashed" /\ exc' = "ValueError"
                /\ min_len' = int(a).v
                /\ UNCHANGED max_len
           ELSE /\ pc' = "Searching"
                /\ min_len' = int(a).v
                /\ max_len' = int(b).v
                /\ UNCHANGED exc
    /\ UNCHANGED <<retriever, requests, log, files, count, all_records, filtered>>
    /\ UNCHANGED <<clientVars, pureVars>>

\* lines 96-99
MainSearch ==
    /\ pc = "Searching"
    /\ \E env \in SearchEnvs :
        LET r == search_taxid(retriever, taxid, env)
        IN /\ retriever' = r.self
           /\ requests' = requests \o r.reqs
           /\ IF r.raises
              THEN /\ log' = log \o r.out
                   /\ pc' = "Crashed" /\ exc' = r.exc
                   /\ UNCHANGED count
              ELSE IF Not(r.ret)
              THEN /\ log' = log \o r.out \o <<[msg |-> "No records found. Exiting."]>>
                   /\ pc' = "NoRecords"
                   /\ count' = r.ret
                   /\ UNCHANGED exc
              ELSE /\ log' = log \o r.out
                   /\ pc' = "Fetching"
                   /\ count' = r.ret
                   /\ UNCHANGED exc
    /\ UNCHANGED <<files, taxid, min_len, max_len, all_records, filtered>>
    /\ UNCHANGED <<clientVars, pureVars>>

\* lines 101-102
MainFetch ==
    /\ pc = "Fetching"
    /\ \E env \in FetchEnvs(batch_size(MainMaxRecords), RecordLists) :
        LET r == fetch_records(retriever, MainStart, MainMaxRecords, env)
        IN /\ requests' = requests \o r.reqs
           /\ log' = log \o <<[msg |-> "Fetching records..."]>> \o r.out
           /\ IF r.raises
              THEN /\ pc' = "Crashed" /\ exc' = r.exc
                   /\ UNCHANGED all_records
              ELSE /\ pc' = "Filtering"
                   /\ all_records' = r.ret.v
                   /\ UNCHANGED exc
    /\ UNCHANGED <<retriever, files, taxid, min_len, max_len, count, filtered>>
    /\ UNCHANGED <<clientVars, pureVars>>

\* a variant of MainFilter: the `if not filtered: return` of lines 107-109 left out
MainFilter_no_exit ==
    /\ pc = "Filtering"
    /\ filtered' = filter_by_length(all_records, min_len, max_len)
    /\ log' = log \o <<[msg |-> "Fetched records. Filtering by length...", n |-> Len(all_records)]>>
    /\ pc' = "Reporting"
    /\ UNCHANGED <<retriever, requests, files, taxid, min_len, max_len, count, all_records, exc>>
    /\ UNCHANGED <<call, ever_ok>>
    /\ UNCHANGED <<p_records, p_snapshot, p_min, p_max, p_out, p_out2, p_plot>>

\* lines 104-109
MainFilter ==
    /\ pc = "Filtering"
    /\ LET kept == filter_by_length(all_records, min_len, max_len)
           p == <<[msg |-> "Fetched records. Filtering by length...", n |-> Len(all_records)]>>
       IN /\ filtered' = kept
          /\ IF Len(kept) = 0
             THEN /\ log' = log \o p \o <<[msg |-> "No records matched the length criteria."]>>
                  /\ pc' = "NoMatches"
             ELSE /\ log' = log \o p
                  /\ pc' = "Reporting"
    /\ UNCHANGED <<retriever, requests, files, taxid, min_len, max_len, count, all_records, exc>>
    /\ UNCHANGED <<clientVars, pureVars>>

\* lines 111-112
MainCsv ==
    /\ pc = "Reporting"
    /\ \E writable \in BOOLEAN :
        LET r == generate_csv(filtered, csv_file(taxid), files, writable)
        IN /\ files' = r.files
           /\ log' = log \o r.out
           /\ IF r.raises
              THEN pc' = "Crashed" /\ exc' = "OSError"
              ELSE pc' = "Plotting" /\ UNCHANGED exc
    /\ UNCHANGED <<retriever, requests, taxid, min_len, max_len, count, all_records, filtered>>
    /\ UNCHANGED <<clientVars, pureVars>>

\* lines 114-115
MainPlot ==
    /\ pc = "Plotting"
    /\ \E writable \in BOOLEAN :
        LET r == generate_plot(filtered, plot_file(taxid), files, writable)
        IN /\ files' = r.files
           /\ log' = log \o r.out
           /\ filtered' = r.records
           /\ IF r.raises
              THEN pc' = "Crashed" /\ exc' = "OSError"
              ELSE pc' = "Done" /\ UNCHANGED exc
    /\ UNCHANGED <<retriever, requests, taxid, min_len, max_len, count, all_records>>
    /\ UNCHANGED <<clientVars, pureVars>>

Next ==
    \/ MainInput
    \/ MainSearch
    \/ MainFetch
    \/ MainFilter
    \/ MainCsv
    \/ MainPlot

Spec == Init /\ [][Next]_vars

----------------------------------------------------------------------------
(* A client of one retriever: search_taxid and fetch_records called in any *)
(* order. call records the latest call as a test would observe it.         *)

\* the arguments a client passes to fetch_records (100 and 0 are the defaults)
StartPool == {0, 200}
MaxRecordsPool == {1, 100, 500, 501, 1000}
\* the pages the remote service answers a client's fetch with
ClientLists == { r \in RecordLists : Len(r) <= 1 } \cup { <<a, b>> \in RecordPool \X RecordPool : a.id = "A1" /\ b.id = "A2" }

ClientSearch ==
    /\ \E id \in TaxIds, env \in SearchEnvs :
        LET r == search_taxid(retriever, id, env)
        IN /\ retriever' = r.self
           /\ call' = [op |-> "search_taxid", taxid |-> id, env |-> env, before |-> retriever,
                       raises |-> r.raises, ret |-> r.ret, out |-> r.out, reqs |-> r.reqs]
           /\ ever_ok' = (ever_ok \/ r.ret # None)
    /\ UNCHANGED <<mainVars, pureVars>>

ClientFetch ==
    /\ \E start \in StartPool, max_records \in MaxRecordsPool :
        \E env \in FetchEnvs(batch_size(max_records), ClientLists) :
            LET r == fetch_records(retriever, start, max_records, env)
            IN call' = [op |-> "fetch_records", start |-> start, max_records |-> max_records,
                        env |-> env, before |-> retriever,
                        raises |-> r.raises, ret |-> r.ret, out |-> r.out, reqs |-> r.reqs]
    /\ UNCHANGED <<retriever, ever_ok>>
    /\ UNCHANGED <<mainVars, pureVars>>

NextRetriever ==
    \/ ClientSearch
    \/ ClientFetch

SpecRetriever == Init /\ [][NextRetriever]_vars

----------------------------------------------------------------------------
(* The pure list functions on arbitrary inputs *)

InitPure ==
    /\ retriever = NoAttributes
    /\ InitMainVars
    /\ InitClientVars
    /\ p_records \in RecordLists
    /\ p_snapshot = p_records
    /\ p_min \in BoundPool
    /\ p_max \in BoundPool
    /\ p_out = Unset
    /\ p_out2 = Unset
    /\ p_plot = Unset

\* p_out = filter_by_length(p_records, p_min, p_max)
PureFilter ==
    /\ p_out = Unset
    /\ p_out' = PyList(filter_by_length(p_records, p_min, p_max))
    /\ UNCHANGED <<p_records, p_snapshot, p_min, p_max, p_out2, p_plot>>
    /\ UNCHANGED <<retriever, mainVars, clientVars>>

\* p_out2 = filter_by_length(p_out, p_min, p_max)
PureFilterAgain ==
    /\ p_out # Unset
    /\ p_out2 = Unset
    /\ p_out2' = PyList(filter_by_length(p_out.v, p_min, p_max))
    /\ UNCHANGED <<p_records, p_snapshot, p_min, p_max, p_out, p_plot>>
    /\ UNCHANGED <<retriever, mainVars, clientVars>>

\* generate_plot(p_records, ...)
PurePlot ==
    /\ p_plot = Unset
    /\ LET r == generate_plot(p_records, plot_file("9606"), NoFiles, TRUE)
       IN /\ p_plot' = r.files[plot_file("9606")]
          /\ p_records' = r.records
    /\ UNCHANGED <<p_snapshot, p_min, p_max, p_out, p_out2>>
    /\ UNCHANGED <<retriever, mainVars, clientVars>>

NextPure ==
    \/ PureFilter
    \/ PureFilterAgain
    \/ PurePlot

SpecPure == InitPure /\ [][NextPure]_vars

----------------------------------------------------------------------------
(* Properties of filter_by_length (SpecPure) *)

\* the positions of records whose length lies in [lo, hi]
KeptAt(records, lo, hi) ==
    { i \in 1..Len(records) : lo <= records[i].seq_len /\ records[i].seq_len <= hi }

\* the k-th smallest position of a set of positions
Nth(positions, k) ==
    CHOOSE i \in positions : Cardinality({ j \in positions : j <= i }) = k

\* the subsequence of records at the kept positions, in input order
Subsequence(records, lo, hi) ==
    LET at == KeptAt(records, lo, hi)
    IN [k \in 1..Cardinality(at) |-> records[Nth(at, k)]]

\* C1: filter_by_length returns exactly the subsequence of its input whose lengths
\* lie in [min_len, max_len], both bounds inclusive, in input order, nothing added
\* or duplicated.
C1_FilterIsSubsequence ==
    p_out # Unset =>
        /\ p_out.v = Subsequence(p_snapshot, p_min, p_max)
        /\ Len(p_out.v) = Cardinality(KeptAt(p_snapshot, p_min, p_max))
        /\ \A k \in 1..Len(p_out.v) : p_min <= p_out.v[k].seq_len /\ p_out.v[k].seq_len <= p_max

\* a call that keeps a record sitting exactly on the upper bound and one on the lower
\* bound, and drops another
C1_Witness ==
    /\ p_out # Unset
    /\ Len(p_out.v) = 2
    /\ Len(p_snapshot) = 3
    /\ p_out.v[1].seq_len = p_max
    /\ p_out.v[2].seq_len = p_min
    /\ p_min < p_max

\* C2: filter_by_length is idempotent: filtering its own result with the same bounds
\* gives that result back.
C2_FilterIdempotent ==
    p_out2 # Unset => p_out2 = p_out

\* a second filtering of a result that is non-empty and shorter than the input
C2_Witness ==
    /\ p_out2 # Unset
    /\ Len(p_out2.v) > 0
    /\ Len(p_out2.v) < Len(p_snapshot)

\* C3: an empty input gives an empty result for any bounds, and min_len > max_len
\* gives an empty result for any input.
C3_FilterEmptyCases ==
    p_out # Unset =>
        /\ (Len(p_snapshot) = 0 => p_out = PyList(<<>>))
        /\ (p_min > p_max => p_out = PyList(<<>>))

\* inverted bounds on a list whose every record passes one of the two comparisons
C3_Witness ==
    /\ p_out = PyList(<<>>)
    /\ p_min > p_max
    /\ Len(p_snapshot) > 1
    /\ \E i \in 1..Len(p_snapshot) : p_snapshot[i].seq_len >= p_min
    /\ \E i \in 1..Len(p_snapshot) : p_snapshot[i].seq_len <= p_max

----------------------------------------------------------------------------
(* Properties of search_taxid and fetch_records under any calls (SpecRetriever) *)

IsFetchRequest(q) == q.fn = "efetch" /\ q.db = "nucleotide"
FetchRequestsIn(qs) == { i \in 1..Len(qs) : IsFetchRequest(qs[i]) }
Printed(lines, msg) == \E i \in 1..Len(lines) : lines[i].msg = msg

\* C4: on a retriever on which no search_taxid call has succeeded, fetch_records does
\* not raise, returns an empty list and issues no remote fetch request.
C4_FetchWithoutSearch ==
    (call.op = "fetch_records" /\ ~ever_ok) =>
        /\ ~call.raises
        /\ call.ret = PyList(<<>>)
        /\ call.reqs = <<>>

\* a fetch on a retriever whose only searches found nothing or failed
C4_Witness ==
    /\ call.op = "fetch_records"
    /\ ~ever_ok
    /\ call.ret = PyList(<<>>)
    /\ call.reqs = <<>>
    /\ Printed(call.out, "No search results to fetch. Run search_taxid() first.")

\* C5: with an active session, fetch_records(start, max_records) issues exactly one
\* remote fetch request, of page size min(max_records, 500), never above 500, at
\* offset start.
C5_OneCappedRequest ==
    (call.op = "fetch_records" /\ "webenv" \in DOMAIN call.before /\ "query_key" \in DOMAIN call.before) =>
        /\ Len(call.reqs) = 1
        /\ IsFetchRequest(call.reqs[1])
        /\ call.reqs[1].retmax = (IF call.max_records < 500 THEN call.max_records ELSE 500)
        /\ call.reqs[1].retmax <= 500
        /\ call.reqs[1].retstart = call.start
        /\ call.reqs[1].webenv = call.before.webenv
        /\ call.reqs[1].query_key = call.before.query_key

\* max_records = 1000 asks for a page of 500
C5_Witness ==
    /\ call.op = "fetch_records"
    /\ call.max_records = 1000
    /\ call.start = 200
    /\ Len(call.reqs) = 1
    /\ call.reqs[1].retmax = 500
    /\ call.reqs[1].retstart = 200

\* the environment's answers by kind: a valid taxon with zero records; a remote error
\* at either step
ZeroCount(env) ==
    /\ ~env.taxonomy.raises
    /\ Len(env.taxonomy.v) > 0
    /\ "ScientificName" \in DOMAIN env.taxonomy.v[1]
    /\ ~env.esearch.raises
    /\ "Count" \in DOMAIN env.esearch.v
    /\ env.esearch.v.Count = <<"0">>
RemoteError(env) ==
    \/ env.taxonomy.raises
    \/ (~env.taxonomy.raises /\ Len(env.taxonomy.v) > 0
        /\ "ScientificName" \in DOMAIN env.taxonomy.v[1] /\ env.esearch.raises)

\* C8 as stated: the value search_taxid returns for a valid taxon with zero records
\* differs from the value it returns on a remote error.
C8_Original ==
    (call.op = "search_taxid" /\ ZeroCount(call.env)) =>
        \A env \in SearchEnvs :
            RemoteError(env) => search_taxid(call.before, call.taxid, env).ret # call.ret

\* C8 amended: search_taxid returns None both for a valid taxon with zero records and
\* on a remote error; the two differ only in the lines printed (the "Found 0 records"
\* line against the "Error searching" line), and both differ from a success, which
\* returns the count, greater than 0.
C8_NoneForBoth ==
    call.op = "search_taxid" =>
        /\ ZeroCount(call.env) =>
              /\ call.ret = None
              /\ Printed(call.out, "Found records")
              /\ ~Printed(call.out, "Error searching TaxID")
        /\ RemoteError(call.env) =>
              /\ call.ret = None
              /\ Printed(call.out, "Error searching TaxID")
              /\ ~Printed(call.out, "Found records")
        /\ call.ret # None => (call.ret.t = "int" /\ call.ret.v > 0)
        /\ ~call.raises

\* a search of a valid taxon with zero records, which returned None
C8_Witness ==
    /\ call.op = "search_taxid"
    /\ ZeroCount(call.env)
    /\ call.ret = None
    /\ \E env \in SearchEnvs :
          RemoteError(env) /\ search_taxid(call.before, call.taxid, env).ret = call.ret

----------------------------------------------------------------------------
(* Properties of generate_plot (SpecPure) *)

\* C9: generate_plot does not mutate the list it is given: after the call the
\* caller's list holds the same elements in the same order.
C9_PlotKeepsInput ==
    p_plot # Unset => p_records = p_snapshot

\* a call whose drawn order differs from the order of the input
C9_Witness ==
    /\ p_plot # Unset
    /\ Len(p_snapshot) > 1
    /\ p_plot.args # [i \in 1..Len(p_snapshot) |-> p_snapshot[i].id]
    /\ p_records = p_snapshot

----------------------------------------------------------------------------
(* Properties of main() (Spec) *)

FoundZero == \E i \in 1..Len(log) : log[i].msg = "Found records" /\ log[i].count = 0
\* the search was called and raised before the count was known
SearchFailed == Len(requests) > 0 /\ ~Printed(log, "Found records")
Terminated == ~ENABLED Next

\* C6: when the search finds a total count of 0, fetch_records is never invoked: the
\* run goes from Searching to the no-records termination, writes no file and exits
\* normally.
C6_ZeroCountEndsRun ==
    FoundZero =>
        /\ pc = "NoRecords"
        /\ Terminated
        /\ all_records = Unset
        /\ FetchRequestsIn(requests) = {}
        /\ ~Printed(log, "Fetching records...")
        /\ files = NoFiles
        /\ exc = "none"

\* a run whose search found 0 records
C6_Witness ==
    /\ FoundZero
    /\ pc = "NoRecords"
    /\ Len(requests) = 2
    /\ Printed(log, "No records found. Exiting.")

\* C7: when either remote step of the search fails, the run ends informationally: no
\* exception escapes, no fetch is issued, neither file is written, the exit is normal.
C7_SearchErrorEndsRun ==
    SearchFailed =>
        /\ pc = "NoRecords"
        /\ Terminated
        /\ exc = "none"
        /\ all_records = Unset
        /\ FetchRequestsIn(requests) = {}
        /\ files = NoFiles
        /\ Printed(log, "Error searching TaxID")
        /\ Printed(log, "No records found. Exiting.")

\* a run whose nucleotide search raised after the organism lookup succeeded
C7_Witness ==
    /\ SearchFailed
    /\ pc = "NoRecords"
    /\ Len(requests) = 2
    /\ requests[2].fn = "esearch"
    /\ \E i \in 1..Len(log) : log[i].msg = "Error searching TaxID" /\ log[i].e = "HTTPError"

\* how many positions of a sequence hold x
Occurrences(seq, x) == Cardinality({ i \in 1..Len(seq) : seq[i] = x })

\* C10: in every run that reaches Reporting, the CSV rows are exactly the fetched
\* records whose length lies in [min_len, max_len], one row per record, in fetch
\* order, and the plot is drawn from the same records.
C10_ReportIsFilteredFetch ==
    LET expected == Subsequence(all_records, min_len, max_len)
        rows == [k \in 1..Len(expected) |-> <<expected[k].id, expected[k].seq_len, expected[k].description>>]
        points(series) == [i \in 1..Len(series.args) |-> <<series.args[i], series.lengths[i]>>]
    IN /\ csv_file(taxid) \in DOMAIN files =>
            /\ files[csv_file(taxid)].rows = rows
            /\ Len(rows) > 0
       /\ plot_file(taxid) \in DOMAIN files =>
            /\ csv_file(taxid) \in DOMAIN files
            /\ Len(files[plot_file(taxid)].args) = Len(rows)
            /\ Len(files[plot_file(taxid)].lengths) = Len(rows)
            /\ \A k \in 1..Len(rows) :
                  Occurrences(points(files[plot_file(taxid)]), <<rows[k][1], rows[k][2]>>)
                  = Occurrences([j \in 1..Len(rows) |-> <<rows[j][1], rows[j][2]>>], <<rows[k][1], rows[k][2]>>)
       /\ pc \in {"Plotting", "Done"} => csv_file(taxid) \in DOMAIN files
       /\ pc = "Done" => plot_file(taxid) \in DOMAIN files
       /\ pc \in {"Init", "Searching", "Fetching", "Filtering", "Reporting", "NoRecords", "NoMatches"} =>
            files = NoFiles

\* fetched lengths 50, 150, 300 with bounds [100, 200]: the single row of the
\* 150-length record, and a single point
C10_Witness ==
    /\ pc = "Done"
    /\ min_len = 100
    /\ max_len = 200
    /\ Len(all_records) = 3
    /\ all_records[1].seq_len = 50
    /\ all_records[2].seq_len = 150
    /\ all_records[3].seq_len = 300
    /\ files[csv_file(taxid)].rows = << <<all_records[2].id, 150, all_records[2].description>> >>
    /\ files[plot_file(taxid)].args = << all_records[2].id >>
    /\ files[plot_file(taxid)].lengths = << 150 >>

----------------------------------------------------------------------------
(* Error containment in main() (Spec) *)

\* C11 as stated: the only failures that leave main() are int() failures of the
\* bounds, before anything else has happened; errors of search and fetch are
\* contained; and a report write that fails does not keep the other report from
\* being written (the step after the CSV write is always the plot write).
C11_Original ==
    /\ [](exc # "none" => (exc = "ValueError" /\ requests = <<>> /\ log = <<>>))
    /\ []((Printed(log, "Error searching TaxID") \/ Printed(log, "Error fetching records")) => exc = "none")
    /\ [][pc = "Reporting" => pc' = "Plotting"]_vars

----------------------------------------------------------------------------
(* The stored session under any calls (SpecRetriever) *)

\* C12 as stated: when the most recent search_taxid found 0 records or failed (it
\* returned None), the retriever holds no session handle, so a following
\* fetch_records issues no remote fetch and returns an empty list.
C12_Original ==
    (call.op = "search_taxid" /\ call.ret = None) =>
        /\ ~("webenv" \in DOMAIN retriever /\ "query_key" \in DOMAIN retriever)
        /\ \A start \in StartPool, max_records \in MaxRecordsPool :
              \A env \in FetchEnvs(batch_size(max_records), ClientLists) :
                  LET r == fetch_records(retriever, start, max_records, env)
                  IN r.reqs = <<>> /\ r.ret = PyList(<<>>)

----------------------------------------------------------------------------
(* Fetch failures in main() (Spec) *)

\* line 104 has been reached: fetch_records returned and filter_by_length was called
FilterRan == Printed(log, "Fetched records. Filtering by length...")

\* C13: when the remote fetch or the parsing of its payload fails after a successful
\* search, fetch_records returns an empty list without raising, and the run goes on
\* to Filtering and ends at the no-matches termination, normally and without a
\* file; the fetch step never ends the run by itself, whatever was fetched.
C13_FetchFailureGoesOn ==
    /\ Printed(log, "Error fetching records") =>
          /\ all_records = <<>>
          /\ exc = "none"
          /\ files = NoFiles
          /\ pc \in {"Filtering", "NoMatches"}
          /\ Cardinality(FetchRequestsIn(requests)) = 1
    /\ Printed(log, "Fetching records...") =>
          /\ pc \in {"Filtering", "NoMatches", "Reporting", "Plotting", "Done", "Crashed"}
          /\ pc = "Crashed" => FilterRan
    /\ pc = "Filtering" => ENABLED MainFilter
    /\ (FilterRan /\ all_records = <<>>) => pc = "NoMatches"
    /\ pc = "NoMatches" => (Terminated /\ exc = "none" /\ files = NoFiles)

\* a run whose fetched payload failed to parse and which ended at no-matches
C13_Witness ==
    /\ pc = "NoMatches"
    /\ \E i \in 1..Len(log) : log[i].msg = "Error fetching records" /\ log[i].e = "ValueError"
    /\ Len(requests) = 3
    /\ count # None
    /\ all_records = <<>>
    /\ Printed(log, "No records matched the length criteria.")

----------------------------------------------------------------------------
(* The shape of a run of main() (Spec) *)

\* the positions of main() in program order; the three ends that are not failures
Rank(p) ==
    CASE p = "Init" -> 0
      [] p = "Searching" -> 1
      [] p = "Fetching" -> 2
      [] p = "Filtering" -> 3
      [] p = "Reporting" -> 4
      [] p = "Plotting" -> 5
      [] OTHER -> 6
NormalEnds == {"NoRecords", "NoMatches", "Done"}
Ends == NormalEnds \cup {"Crashed"}

RequestsOf(fn, db) == { i \in 1..Len(requests) : requests[i].fn = fn /\ requests[i].db = db }

\* the steps main() can take from one position to the next
LinearStep ==
    \/ pc = "Init" /\ pc' \in {"Searching", "Crashed"}
    \/ pc = "Searching" /\ pc' \in {"NoRecords", "Fetching"}
    \/ pc = "Fetching" /\ pc' = "Filtering"
    \/ pc = "Filtering" /\ pc' \in {"NoMatches", "Reporting"}
    \/ pc = "Reporting" /\ pc' \in {"Plotting", "Crashed"}
    \/ pc = "Plotting" /\ pc' \in {"Done", "Crashed"}

\* at most one search and one remote fetch, the fetch at offset 0 with a cap of 200
OneSearchOneFetch ==
    /\ Cardinality(RequestsOf("efetch", "taxonomy")) <= 1
    /\ Cardinality(RequestsOf("esearch", "nucleotide")) <= 1
    /\ Cardinality(RequestsOf("efetch", "nucleotide")) <= 1
    /\ \A i \in RequestsOf("efetch", "nucleotide") :
          requests[i].retstart = 0 /\ requests[i].retmax = 200
    /\ Len(requests) <= 3

\* C14 as stated, its last part: every run ends in one of the outcomes
\* no-records/search-failed, no-matches or reported.
C14_Original ==
    Terminated => pc \in NormalEnds

\* C14 amended: every run is strictly linear and terminates: the positions are
\* visited in program order, none twice, with at most one search and at most one
\* remote fetch (offset 0, cap 200), and the run ends in exactly one of: an uncaught
\* failure (the ValueError of a bound that is no integer, before any request, or the
\* error of a report write), no-records/search-failed, no-matches, or reported.
C14_LinearRun ==
    /\ [][LinearStep /\ Rank(pc') > Rank(pc)]_vars
    /\ [](OneSearchOneFetch)
    /\ [](Terminated <=> pc \in Ends)
    /\ [](pc = "Crashed" =>
            \/ exc = "ValueError" /\ requests = <<>> /\ log = <<>>
            \/ exc = "OSError" /\ FilterRan /\ Len(filtered) > 0)
    /\ [](pc \in NormalEnds => exc = "none")
    /\ [](pc = "Done" => (csv_file(taxid) \in DOMAIN files /\ plot_file(taxid) \in DOMAIN files))

\* a run that went through every position and reported, after one search and one fetch
C14_Witness ==
    /\ pc = "Done"
    /\ Len(requests) = 3
    /\ requests[3].fn = "efetch" /\ requests[3].db = "nucleotide"
    /\ requests[3].retstart = 0 /\ requests[3].retmax = 200
    /\ Printed(log, "Saved plot")

----------------------------------------------------------------------------
(* The report files of main() (Spec) *)

\* C15: files are written only in Reporting and in a fixed order, the CSV before the
\* plot: at no point, a failure between the two writes included, does the plot exist
\* without the CSV, and neither file is written when the filtered list is empty.
C15_CsvBeforePlot ==
    /\ [](DOMAIN files \subseteq {csv_file(taxid), plot_file(taxid)})
    /\ [](plot_file(taxid) \in DOMAIN files => csv_file(taxid) \in DOMAIN files)
    /\ [](files # NoFiles => (FilterRan /\ Len(filtered) > 0 /\ pc \in {"Plotting", "Done", "Crashed"}))
    /\ [](pc = "Plotting" => (csv_file(taxid) \in DOMAIN files /\ plot_file(taxid) \notin DOMAIN files))
    /\ [][files' # files =>
            \/ pc = "Reporting" /\ DOMAIN files = {} /\ DOMAIN files' = {csv_file(taxid)}
            \/ pc = "Plotting" /\ DOMAIN files' = {csv_file(taxid), plot_file(taxid)}
                 /\ files'[csv_file(taxid)] = files[csv_file(taxid)]]_vars

\* a run that failed between the two writes: the CSV exists, the plot does not
C15_Witness ==
    /\ pc = "Crashed"
    /\ exc = "OSError"
    /\ csv_file(taxid) \in DOMAIN files
    /\ plot_file(taxid) \notin DOMAIN files
    /\ Printed(log, "Saved CSV report")

----------------------------------------------------------------------------
(* The order generate_plot draws in (SpecPure) *)

\* the ids, in order, of the entries of a series whose length is L
IdsOfLength(ids, lens, L) ==
    LET at == { i \in 1..Len(lens) : lens[i] = L }
    IN [k \in 1..Cardinality(at) |-> ids[Nth(at, k)]]

\* C16: generate_plot draws the records by sequence length descending with a stable
\* sort: the series is a permutation of the input, lengths never increase along it,
\* and records of equal length keep the relative order they had in the input.
C16_StableDescending ==
    p_plot # Unset =>
        LET in_ids == [i \in 1..Len(p_snapshot) |-> p_snapshot[i].id]
            in_lens == [i \in 1..Len(p_snapshot) |-> p_snapshot[i].seq_len]
            in_pairs == [i \in 1..Len(p_snapshot) |-> <<in_ids[i], in_lens[i]>>]
            out_pairs == [i \in 1..Len(p_plot.args) |-> <<p_plot.args[i], p_plot.lengths[i]>>]
        IN /\ Len(p_plot.args) = Len(p_snapshot)
           /\ Len(p_plot.lengths) = Len(p_snapshot)
           /\ \A i \in 1..Len(in_pairs) :
                 Occurrences(out_pairs, in_pairs[i]) = Occurrences(in_pairs, in_pairs[i])
           /\ \A i, j \in 1..Len(p_plot.lengths) :
                 i < j => p_plot.lengths[i] >= p_plot.lengths[j]
           /\ \A i \in 1..Len(in_lens) :
                 IdsOfLength(p_plot.args, p_plot.lengths, in_lens[i]) = IdsOfLength(in_ids, in_lens, in_lens[i])

\* a shorter record followed by two different records of one length: the two move
\* to the front in the order they had
C16_Witness ==
    /\ p_plot # Unset
    /\ Len(p_snapshot) = 3
    /\ p_snapshot[1].seq_len < p_snapshot[2].seq_len
    /\ p_snapshot[2].seq_len = p_snapshot[3].seq_len
    /\ p_snapshot[2].id # p_snapshot[3].id
    /\ p_plot.args = <<p_snapshot[2].id, p_snapshot[3].id, p_snapshot[1].id>>

----------------------------------------------------------------------------
(* Atomicity of the stored session (SpecRetriever) *)

\* C17 as stated: webenv, query_key and count are all absent or all present, all
\* three from one search response, the count greater than 0; a search that does not
\* succeed leaves them as they were, and so does a fetch.
C17_Original ==
    /\ DOMAIN retriever \in { {}, {"webenv", "query_key", "count"} }
    /\ "count" \in DOMAIN retriever => retriever["count"] > 0
    /\ call.op = "search_taxid" =>
          IF call.ret # None
          THEN /\ DOMAIN retriever = {"webenv", "query_key", "count"}
               /\ retriever["webenv"] = call.env.esearch.v.WebEnv
               /\ retriever["query_key"] = call.env.esearch.v.QueryKey
               /\ retriever["count"] = call.ret.v
               /\ int(call.env.esearch.v.Count).v = call.ret.v
          ELSE retriever = call.before
    /\ call.op = "fetch_records" => retriever = call.before

====
